---- MODULE Spec2Model ----
(***************************************************************************)
(* Bar Assistant MCP server: the Cache Manager (two bounded, expiring      *)
(* collections) and the natural-language Query Parser with its merge into  *)
(* caller arguments.                                                       *)
(*                                                                         *)
(* Spec        the CacheManager object: constructor, get/set on the recipe *)
(*             and the search collection, getStats, clear, and the clock.  *)
(* ParseSpec   QueryParser.parse applied to texts assembled token by token.*)
(* EnhanceSpec QueryParser.enhanceSearchArgs applied to bounded args and   *)
(*             ParsedQuery values.                                         *)
(***************************************************************************)
EXTENDS Integers, Sequences, FiniteSets, TLC

VARIABLES
    recipeCache,    \* Map<number, CacheEntry>: entries in insertion order
    searchCache,    \* Map<string, CacheEntry>: entries in insertion order
    cacheExpiry,    \* this.cacheExpiry
    maxCacheSize,   \* this.maxCacheSize
    options,        \* the options object the constructor was called with
    now,            \* Date.now()
    returned,       \* the last CacheManager call: its name, what it did and returned
    writtenAt,      \* per collection and key: when the present entry was set
    sweeps,         \* how many sets so far ran a sweep that deletes entries
    query,          \* the text handed to QueryParser.parse, as its tokens
    parsed,         \* what the last parse call returned
    lastIndex,      \* lastIndex of every RegExp of QueryParser.patterns
    parses,         \* how many parse calls were made so far
    args,           \* the args object handed to enhanceSearchArgs
    parsedQuery,    \* the ParsedQuery handed to enhanceSearchArgs
    enhanced        \* what the enhanceSearchArgs call returned

cacheVars == <<recipeCache, searchCache, cacheExpiry, maxCacheSize, options, now, returned, writtenAt, sweeps>>

parseVars == <<query, parsed, lastIndex, parses>>

enhanceVars == <<args, parsedQuery, enhanced>>

vars == <<cacheVars, parseVars, enhanceVars>>

----------------------------------------------------------------------------
(* Bounds of the model *)

\* the clock runs from 0 to MaxTime milliseconds
MaxTime == 2

\* a get is taken only while the entry's accessCount is below MaxAccess
MaxAccess == 2

\* at most MaxSweeps sets of a run delete entries in their eviction sweep
MaxSweeps == 1

\* a text handed to parse has at most MaxLen tokens (the examples apart)
MaxLen == 4

\* a run makes at most MaxParses calls of parse
MaxParses == 2

\* an option of the constructor; given = FALSE is an omitted parameter
Omitted == [given |-> FALSE, value |-> 0]

Given(n) == [given |-> TRUE, value |-> n]

\* the options objects the constructor is called with
OptionsUsed ==
    { [ttl |-> Omitted,  maxSize |-> Omitted],
      [ttl |-> Given(0), maxSize |-> Given(0)],
      [ttl |-> Given(2), maxSize |-> Given(1)],
      [ttl |-> Given(2), maxSize |-> Given(4)],
      [ttl |-> Omitted,  maxSize |-> Given(4)] }

AllRecipeIds == {1, 2, 3, 4, 5}

AllQueries == {"q1", "q2", "q3", "q4", "q5"}

\* the keys the callers of one run use: with capacity 4 one collection gets
\* five keys, so that its sweep deletes entries, and the other none or one
\* key that is stored and not read; with the other capacities both
\* collections get two keys
RecipeIds ==
    IF maxCacheSize # 4 THEN {1, 2}
    ELSE IF options.ttl.given THEN AllRecipeIds ELSE {1}

Queries ==
    IF maxCacheSize # 4 THEN {"q1", "q2"}
    ELSE IF options.ttl.given THEN {} ELSE AllQueries

\* the keys the callers read
RecipeIdsRead == IF Cardinality(RecipeIds) = 1 THEN {} ELSE RecipeIds

\* the payload of a set names its key and the time of the call; the cache
\* never looks inside a payload
Payloads(k, t) == {<<k, t>>}

----------------------------------------------------------------------------
(* Program constants *)

\* 5 * 60 * 1000
DefaultTtl == 300000

DefaultMaxSize == 1000

\* the result of a get that finds nothing
Null == <<>>

----------------------------------------------------------------------------
(* Map<K, CacheEntry<T>> as the sequence of its entries in insertion order *)

MapKeys(cache) == {cache[i].key : i \in 1..Len(cache)}

MapHas(cache, k) == k \in MapKeys(cache)

MapIndex(cache, k) == CHOOSE i \in 1..Len(cache) : cache[i].key = k

MapGet(cache, k) == cache[MapIndex(cache, k)]

\* a bug: the entry of an existing key keeps its access count
MapSetMerging(cache, k, e) ==
    IF MapHas(cache, k)
    THEN [cache EXCEPT ![MapIndex(cache, k)] = [e EXCEPT !.accessCount = MapGet(cache, k).accessCount]]
    ELSE Append(cache, e)

\* Map.prototype.set: an existing key keeps its place, a new key goes last
MapSet(cache, k, e) ==
    IF MapHas(cache, k)
    THEN [cache EXCEPT ![MapIndex(cache, k)] = e]
    ELSE Append(cache, e)

MapDelete(cache, k) == SelectSeq(cache, LAMBDA e : e.key # k)

----------------------------------------------------------------------------
(* CacheManager *)

\* options.x || dflt : an omitted parameter and a falsy number give the default
OrDefault(opt, dflt) == IF opt.given /\ opt.value # 0 THEN opt.value ELSE dflt

\* a bug: an entry of age exactly ttl still counts as fresh
IsValidInclusive(entry, t, ttl) == t - entry.timestamp <= ttl

IsValid(entry, t, ttl) == t - entry.timestamp < ttl

\* a bug: the comparator returns scoreB - scoreA, a descending sort
CompareScoreReversed(a, b, t) ==
    LET ageA == t - a.timestamp
        ageB == t - b.timestamp
    IN  IF ageA = 0 /\ ageB = 0 THEN 0
        ELSE IF ageA = 0 THEN -1
        ELSE IF ageB = 0 THEN 1
        ELSE LET d == b.accessCount * ageA - a.accessCount * ageB
             IN  IF d < 0 THEN -1 ELSE IF d > 0 THEN 1 ELSE 0

\* sign of scoreA - scoreB as Array.prototype.sort reads it: x / 0 is
\* Infinity for x > 0, Infinity - Infinity is NaN, and a NaN result counts as 0
CompareScore(a, b, t) ==
    LET ageA == t - a.timestamp
        ageB == t - b.timestamp
    IN  IF ageA = 0 /\ ageB = 0 THEN 0
        ELSE IF ageA = 0 THEN 1
        ELSE IF ageB = 0 THEN -1
        ELSE LET d == a.accessCount * ageB - b.accessCount * ageA
             IN  IF d < 0 THEN -1 ELSE IF d > 0 THEN 1 ELSE 0

\* insert e into the sorted sequence s behind every element it does not precede
RECURSIVE InsertSorted(_, _, _)
InsertSorted(s, e, t) ==
    IF s = <<>> THEN <<e>>
    ELSE IF CompareScore(e, Head(s), t) < 0 THEN <<e>> \o s
    ELSE <<Head(s)>> \o InsertSorted(Tail(s), e, t)

\* entries.sort(...): a stable ascending sort by score
RECURSIVE SortByScore(_, _)
SortByScore(entries, t) ==
    IF entries = <<>> THEN <<>>
    ELSE InsertSorted(SortByScore(SubSeq(entries, 1, Len(entries) - 1), t),
                      entries[Len(entries)], t)

\* a bug: the batch is one entry more than the collection can hold
ToRemoveOverrun(maxSize) == maxSize + 1

\* Math.floor(this.maxCacheSize * 0.25)
ToRemove(maxSize) == maxSize \div 4

\* entries[i][0] with i past the end of the array reads a property of
\* undefined: the delete loop throws a TypeError
SweepThrows(cache, maxSize) == Len(cache) >= maxSize /\ ToRemove(maxSize) > Len(cache)

\* the keys the sweep deletes: entries[0 .. toRemove - 1] of the sorted array,
\* all of them when the loop runs past its end
Evicted(cache, t, maxSize) ==
    LET entries == SortByScore(cache, t)
    IN  {entries[i].key : i \in 1..(IF ToRemove(maxSize) > Len(entries)
                                    THEN Len(entries) ELSE ToRemove(maxSize))}

EvictIfNeeded(cache, t, maxSize) ==
    IF Len(cache) >= maxSize
    THEN LET gone == Evicted(cache, t, maxSize)
         IN  SelectSeq(cache, LAMBDA e : e.key \notin gone)
    ELSE cache

NewEntry(k, data, t) == [key |-> k, data |-> data, timestamp |-> t, accessCount |-> 1]

\* a bug: the sweep runs only when the key is a new one
SetCachedSweepIfNew(cache, k, data, t, maxSize) ==
    IF MapHas(cache, k) THEN MapSet(cache, k, NewEntry(k, data, t))
    ELSE IF SweepThrows(cache, maxSize) THEN EvictIfNeeded(cache, t, maxSize)
    ELSE MapSet(EvictIfNeeded(cache, t, maxSize), k, NewEntry(k, data, t))

\* setCachedRecipe / setCachedSearch: the collection afterwards
\* an error thrown by the sweep leaves the call before it stores the entry
SetCached(cache, k, data, t, maxSize) ==
    IF SweepThrows(cache, maxSize)
    THEN EvictIfNeeded(cache, t, maxSize)
    ELSE MapSet(EvictIfNeeded(cache, t, maxSize), k, NewEntry(k, data, t))

\* a bug: a valid read returns the data without counting the access
GetCachedNoCount(cache, k, t, ttl) ==
    IF MapHas(cache, k) /\ IsValid(MapGet(cache, k), t, ttl)
    THEN [cache |-> cache, result |-> MapGet(cache, k).data, did |-> "hit"]
    ELSE IF MapHas(cache, k)
    THEN [cache |-> MapDelete(cache, k), result |-> Null, did |-> "expired"]
    ELSE [cache |-> cache, result |-> Null, did |-> "miss"]

\* getCachedRecipe / getCachedSearch: the collection afterwards and the result
GetCached(cache, k, t, ttl) ==
    IF MapHas(cache, k) /\ IsValid(MapGet(cache, k), t, ttl)
    THEN [cache  |-> [cache EXCEPT ![MapIndex(cache, k)].accessCount = @ + 1],
          result |-> MapGet(cache, k).data, did |-> "hit"]
    ELSE IF MapHas(cache, k)
    THEN [cache |-> MapDelete(cache, k), result |-> Null, did |-> "expired"]
    ELSE [cache |-> cache, result |-> Null, did |-> "miss"]

RECURSIVE SumAccess(_)
SumAccess(cache) ==
    IF cache = <<>> THEN 0 ELSE Head(cache).accessCount + SumAccess(Tail(cache))

Stats(rc, sc) ==
    [recipeCacheSize |-> Len(rc), searchCacheSize |-> Len(sc),
     recipeCacheHits |-> SumAccess(rc), searchCacheHits |-> SumAccess(sc)]

NoStats == [recipeCacheSize |-> 0, searchCacheSize |-> 0, recipeCacheHits |-> 0, searchCacheHits |-> 0]

\* bookkeeping: the time of the set that made the entry now present, -1 if none
Written(old, cache, k, t, isSet) ==
    IF ~MapHas(cache, k) THEN -1 ELSE IF isSet THEN t ELSE old

\* the last call: `found` is the access count of the entry a set found under
\* its key (0 if none) and the number of entries a clear found
Returned(call, key, did, data, stats, found) ==
    [call |-> call, key |-> key, did |-> did, data |-> data, stats |-> stats, found |-> found]

\* what a set did
SetDid(cache) ==
    IF SweepThrows(cache, maxCacheSize) THEN "threw"
    ELSE IF Len(cache) >= maxCacheSize /\ ToRemove(maxCacheSize) > 0 THEN "swept"
    ELSE "stored"

FoundCount(cache, k) == IF MapHas(cache, k) THEN MapGet(cache, k).accessCount ELSE 0

\* the key of a call that has none
NoKey == <<>>

\* a key not in the collection is the lowest one not in it
RecipeRank(id) == id

QueryRank(q) == CHOOSE i \in 1..5 : <<"q1", "q2", "q3", "q4", "q5">>[i] = q

Lowest(cache, universe, Rank(_), k) ==
    MapHas(cache, k) \/ \A j \in universe \ MapKeys(cache) : Rank(k) <= Rank(j)

\* a get of k would find a live entry
WouldHit(cache, k) == MapHas(cache, k) /\ now - MapGet(cache, k).timestamp < cacheExpiry

Deletes(cache) == Len(cache) >= maxCacheSize /\ ToRemove(maxCacheSize) > 0

CacheInit ==
    /\ options \in OptionsUsed
    /\ cacheExpiry = OrDefault(options.ttl, DefaultTtl)
    /\ maxCacheSize = OrDefault(options.maxSize, DefaultMaxSize)
    /\ recipeCache = <<>>
    /\ searchCache = <<>>
    /\ now = 0
    /\ returned = Returned("new", NoKey, "none", Null, NoStats, 0)
    /\ writtenAt = [recipe |-> [k \in AllRecipeIds |-> -1], search |-> [k \in AllQueries |-> -1]]
    /\ sweeps = 0

GetCachedRecipe(id) ==
    /\ Lowest(recipeCache, RecipeIds, RecipeRank, id)
    /\ WouldHit(recipeCache, id) => MapGet(recipeCache, id).accessCount < MaxAccess
    /\ LET r == GetCached(recipeCache, id, now, cacheExpiry)
       IN  /\ recipeCache' = r.cache
           /\ returned' = Returned("getCachedRecipe", <<id>>, r.did, r.result, NoStats, 0)
           /\ writtenAt' = [writtenAt EXCEPT !.recipe[id] = Written(@, r.cache, id, now, FALSE)]
    /\ UNCHANGED <<searchCache, cacheExpiry, maxCacheSize, options, now, sweeps>>

SetCachedRecipe(id, data) ==
    /\ Lowest(recipeCache, RecipeIds, RecipeRank, id)
    /\ Deletes(recipeCache) => sweeps < MaxSweeps
    /\ sweeps' = IF Deletes(recipeCache) THEN sweeps + 1 ELSE sweeps
    /\ recipeCache' = SetCached(recipeCache, id, data, now, maxCacheSize)
    /\ returned' = Returned("setCachedRecipe", <<id>>, SetDid(recipeCache), Null, NoStats,
                            FoundCount(recipeCache, id))
    /\ writtenAt' = [writtenAt EXCEPT !.recipe =
                        [k \in AllRecipeIds |-> Written(@[k], recipeCache', k, now, k = id)]]
    /\ UNCHANGED <<searchCache, cacheExpiry, maxCacheSize, options, now>>

GetCachedSearch(searchKey) ==
    /\ Lowest(searchCache, Queries, QueryRank, searchKey)
    /\ WouldHit(searchCache, searchKey) => MapGet(searchCache, searchKey).accessCount < MaxAccess
    /\ LET r == GetCached(searchCache, searchKey, now, cacheExpiry)
       IN  /\ searchCache' = r.cache
           /\ returned' = Returned("getCachedSearch", <<searchKey>>, r.did, r.result, NoStats, 0)
           /\ writtenAt' = [writtenAt EXCEPT !.search[searchKey] = Written(@, r.cache, searchKey, now, FALSE)]
    /\ UNCHANGED <<recipeCache, cacheExpiry, maxCacheSize, options, now, sweeps>>

\* a bug: the sweep of the search collection also deletes the oldest entry
\* of the recipe collection
SetCachedSearchSharedSweep(searchKey, data) ==
    /\ Lowest(searchCache, Queries, QueryRank, searchKey)
    /\ Deletes(searchCache) => sweeps < MaxSweeps
    /\ sweeps' = IF Deletes(searchCache) THEN sweeps + 1 ELSE sweeps
    /\ searchCache' = SetCached(searchCache, searchKey, data, now, maxCacheSize)
    /\ recipeCache' = IF Deletes(searchCache) /\ recipeCache # <<>> THEN Tail(recipeCache)
                                                                  ELSE recipeCache
    /\ returned' = Returned("setCachedSearch", <<searchKey>>, SetDid(searchCache), Null, NoStats,
                            FoundCount(searchCache, searchKey))
    /\ writtenAt' = [writtenAt EXCEPT !.search =
                        [k \in AllQueries |-> Written(@[k], searchCache', k, now, k = searchKey)]]
    /\ UNCHANGED <<cacheExpiry, maxCacheSize, options, now>>

SetCachedSearch(searchKey, data) ==
    /\ Lowest(searchCache, Queries, QueryRank, searchKey)
    /\ Deletes(searchCache) => sweeps < MaxSweeps
    /\ sweeps' = IF Deletes(searchCache) THEN sweeps + 1 ELSE sweeps
    /\ searchCache' = SetCached(searchCache, searchKey, data, now, maxCacheSize)
    /\ returned' = Returned("setCachedSearch", <<searchKey>>, SetDid(searchCache), Null, NoStats,
                            FoundCount(searchCache, searchKey))
    /\ writtenAt' = [writtenAt EXCEPT !.search =
                        [k \in AllQueries |-> Written(@[k], searchCache', k, now, k = searchKey)]]
    /\ UNCHANGED <<recipeCache, cacheExpiry, maxCacheSize, options, now>>

GetStats ==
    /\ returned' = Returned("getStats", NoKey, "none", Null, Stats(recipeCache, searchCache), 0)
    /\ UNCHANGED <<recipeCache, searchCache, cacheExpiry, maxCacheSize, options, now, writtenAt, sweeps>>

\* a bug: only the recipe collection is emptied
ClearRecipesOnly ==
    /\ recipeCache' = <<>>
    /\ searchCache' = searchCache
    /\ returned' = Returned("clear", NoKey, "none", Null, NoStats, Len(recipeCache) + Len(searchCache))
    /\ writtenAt' = [recipe |-> [k \in AllRecipeIds |-> -1], search |-> [k \in AllQueries |-> -1]]
    /\ UNCHANGED <<cacheExpiry, maxCacheSize, options, now, sweeps>>

Clear ==
    /\ recipeCache' = <<>>
    /\ searchCache' = <<>>
    /\ returned' = Returned("clear", NoKey, "none", Null, NoStats, Len(recipeCache) + Len(searchCache))
    /\ writtenAt' = [recipe |-> [k \in AllRecipeIds |-> -1], search |-> [k \in AllQueries |-> -1]]
    /\ UNCHANGED <<cacheExpiry, maxCacheSize, options, now, sweeps>>

\* the clock advances between calls
Tick ==
    /\ now < MaxTime
    /\ now' = now + 1
    /\ UNCHANGED <<recipeCache, searchCache, cacheExpiry, maxCacheSize, options, returned, writtenAt, sweeps>>

CacheNext ==
    \/ \E id \in RecipeIdsRead : GetCachedRecipe(id)
    \/ \E id \in RecipeIds : \E data \in Payloads(id, now) : SetCachedRecipe(id, data)
    \/ \E q \in Queries : GetCachedSearch(q)
    \/ \E q \in Queries : \E data \in Payloads(q, now) : SetCachedSearch(q, data)
    \/ GetStats
    \/ Clear
    \/ Tick

----------------------------------------------------------------------------
(* Texts.  A string is the sequence of its tokens: a word token is a maximal *)
(* run of \w characters, every other character is a token of its own.       *)

Space == " "

Hyphen == "-"

Comma == ","

\* the character class \s, and the class [\s-]
Whitespace == {Space}

SpaceOrHyphen == {Space, Hyphen}

IsWord(tok) == tok \notin {Space, Hyphen, Comma}

\* the words a caller types; "Triple" and "Campari" carry upper-case letters
Words == {"stirred", "easy", "bitter", "lime", "campari", "Campari", "Triple", "sec",
          "without", "not", "crisp", "a"}

Tokens == Words \cup {Space, Hyphen, Comma}

\* String.prototype.toLowerCase on one token
ToLowerCase(tok) ==
    CASE tok = "Triple" -> "triple"
      [] tok = "Campari" -> "campari"
      [] tok = "Not" -> "not"
      [] tok = "Lime" -> "lime"
      [] OTHER -> tok

\* query.toLowerCase()
LowerQuery(str) == [i \in 1..Len(str) |-> ToLowerCase(str[i])]

\* the i flag: characters compare by their case-folded form
Fold(tok) == ToLowerCase(tok)

RECURSIVE JoinTokens(_)
JoinTokens(toks) ==
    IF toks = <<>> THEN "" ELSE Head(toks) \o JoinTokens(Tail(toks))

----------------------------------------------------------------------------
(* Regular expressions of the shape /\b(alt|alt|...)\b/ : an alternative is *)
(* the sequence of its words, joined in the source by [\s-]?                *)

RECURSIVE Prefixes(_, _)
Prefixes(parts, acc) ==
    IF parts = <<>> THEN {}
    ELSE {acc \o Head(parts)} \cup Prefixes(Tail(parts), acc \o Head(parts))

\* the tokens a match of one of the alternatives can begin with
FirstTokens(alts) == UNION {Prefixes(alts[a], "") : a \in 1..Len(alts)}

Pattern(tag, name, global, alts) ==
    [tag |-> tag, name |-> name, global |-> global, alts |-> alts, first |-> FirstTokens(alts)]

\* where a match of the alternative `parts` that begins at token i ends (the
\* index behind its last token), 0 if there is none; `acc` is what the words
\* matched so far have taken of token i
RECURSIVE AltEnd(_, _, _, _)
AltEnd(parts, str, i, acc) ==
    IF i > Len(str) THEN 0
    ELSE IF Len(parts) = 1
    THEN IF Fold(str[i]) = acc \o Head(parts) THEN i + 1 ELSE 0
    ELSE IF /\ Fold(str[i]) = acc \o Head(parts)
            /\ i + 1 <= Len(str)
            /\ str[i + 1] \in SpaceOrHyphen
            /\ AltEnd(Tail(parts), str, i + 2, "") # 0
    THEN AltEnd(Tail(parts), str, i + 2, "")
    ELSE AltEnd(Tail(parts), str, i, acc \o Head(parts))

\* the end of the match of the first of these alternatives
FirstAlternative(re, str, i, hits) ==
    IF hits = {} THEN 0
    ELSE AltEnd(re.alts[CHOOSE a \in hits : \A b \in hits : a <= b], str, i, "")

\* the end of the match at token i: the first alternative that matches there
MatchEnd(re, str, i) ==
    IF Fold(str[i]) \notin re.first THEN 0
    ELSE FirstAlternative(re, str, i,
                          {a \in 1..Len(re.alts) : AltEnd(re.alts[a], str, i, "") # 0})

NoMatch == [found |-> FALSE, index |-> 0, end |-> 0]

MatchAt(i, end) == [found |-> TRUE, index |-> i, end |-> end]

\* the match at the least of these positions
Leftmost(re, str, at) ==
    IF at = {} THEN NoMatch
    ELSE MatchAt(CHOOSE j \in at : \A k \in at : j <= k,
                 MatchEnd(re, str, CHOOSE j \in at : \A k \in at : j <= k))

\* the leftmost match that begins behind `from` tokens
Search(re, str, from) ==
    Leftmost(re, str, {i \in (from + 1)..Len(str) : MatchEnd(re, str, i) # 0})

\* what exec returns and leaves in lastIndex when its search gave m
ExecResult(re, li, m) ==
    [match |-> m,
     lastIndex |-> IF ~re.global THEN li ELSE IF m.found THEN m.end - 1 ELSE 0]

\* RegExpBuiltinExec: a global RegExp starts at its lastIndex and leaves the
\* end of the match (0 on failure) there; another one starts at 0 and leaves
\* lastIndex alone
RegExpExec(re, str, li) ==
    ExecResult(re, li, Search(re, str, IF re.global THEN li ELSE 0))

TestResult(r) == [matched |-> r.match.found, lastIndex |-> r.lastIndex]

\* RegExp.prototype.test
RegExpTest(re, str, li) == TestResult(RegExpExec(re, str, li))

\* every match from `from` on, left to right, none overlapping another
RECURSIVE AllMatches(_, _, _)
AllMatches(re, str, from) ==
    IF ~Search(re, str, from).found THEN <<>>
    ELSE <<Search(re, str, from)>> \o AllMatches(re, str, Search(re, str, from).end - 1)

\* what match returns: null when nothing matched
MatchResult(all, li) == [isNull |-> all = <<>>, matches |-> all, lastIndex |-> li]

\* String.prototype.match: with the g flag lastIndex is set to 0, every match
\* is collected and the failing last exec leaves lastIndex 0; without it the
\* result is that of one exec
StringMatch(str, re, li) ==
    IF re.global
    THEN MatchResult(AllMatches(re, str, 0), 0)
    ELSE MatchResult(IF Search(re, str, 0).found THEN <<Search(re, str, 0)>> ELSE <<>>, li)

----------------------------------------------------------------------------
(* QueryParser.patterns *)

StrengthPatterns ==
    << Pattern("light", "strength.light", FALSE,
               << <<"light">>, <<"weak">>, <<"low", "alcohol">>, <<"session">>, <<"easy", "drinking">>, <<"mild">> >>),
       Pattern("medium", "strength.medium", FALSE,
               << <<"medium">>, <<"moderate">>, <<"balanced">>, <<"standard">> >>),
       Pattern("strong", "strength.strong", FALSE,
               << <<"strong">>, <<"potent">>, <<"boozy">>, <<"high", "proof">>, <<"stiff">>, <<"powerful">> >>) >>

FlavorPatterns ==
    << Pattern("bitter", "flavors.bitter", TRUE,
               << <<"bitter">>, <<"amaro">>, <<"campari">>, <<"aperol">>, <<"negroni", "like">> >>),
       Pattern("sweet", "flavors.sweet", TRUE,
               << <<"sweet">>, <<"dessert">>, <<"candy">>, <<"sugar">>, <<"syrup">>, <<"honey">> >>),
       Pattern("sour", "flavors.sour", TRUE,
               << <<"sour">>, <<"tart">>, <<"acidic">>, <<"citrus">>, <<"lime">>, <<"lemon">> >>),
       Pattern("dry", "flavors.dry", TRUE,
               << <<"dry">>, <<"bone", "dry">>, <<"crisp">>, <<"clean">> >>),
       Pattern("herbal", "flavors.herbal", TRUE,
               << <<"herbal">>, <<"botanical">>, <<"green">>, <<"earthy">>, <<"sage">>, <<"rosemary">> >>),
       Pattern("fruity", "flavors.fruity", TRUE,
               << <<"fruity">>, <<"tropical">>, <<"berry">>, <<"apple">>, <<"pear">>, <<"stone", "fruit">> >>),
       Pattern("spicy", "flavors.spicy", TRUE,
               << <<"spicy">>, <<"hot">>, <<"pepper">>, <<"ginger">>, <<"cinnamon">>, <<"warming">> >>),
       Pattern("smoky", "flavors.smoky", TRUE,
               << <<"smoky">>, <<"peated">>, <<"mezcal">>, <<"smokey">>, <<"charred">> >>),
       Pattern("refreshing", "flavors.refreshing", TRUE,
               << <<"refreshing">>, <<"cooling">>, <<"crisp">>, <<"bright">>, <<"zesty">> >>),
       Pattern("rich", "flavors.rich", TRUE,
               << <<"rich">>, <<"decadent">>, <<"creamy">>, <<"luxurious">>, <<"indulgent">> >>) >>

SpiritPatterns ==
    << Pattern("gin", "spirits.gin", FALSE,
               << <<"gin">>, <<"juniper">>, <<"botanical">>, <<"london", "dry">> >>),
       Pattern("whiskey", "spirits.whiskey", FALSE,
               << <<"whiskey">>, <<"whisky">>, <<"bourbon">>, <<"rye">>, <<"scotch">>, <<"irish">>, <<"japanese">> >>),
       Pattern("rum", "spirits.rum", FALSE,
               << <<"rum">>, <<"rhum">>, <<"cachaca">>, <<"sugarcane">> >>),
       Pattern("vodka", "spirits.vodka", FALSE,
               << <<"vodka">>, <<"potato">>, <<"grain", "spirit">> >>),
       Pattern("tequila", "spirits.tequila", FALSE,
               << <<"tequila">>, <<"agave">>, <<"mezcal">>, <<"blanco">>, <<"reposado">> >>),
       Pattern("brandy", "spirits.brandy", FALSE,
               << <<"brandy">>, <<"cognac">>, <<"armagnac">>, <<"grape", "spirit">> >>) >>

GlassPatterns ==
    << Pattern("martini", "glass.martini", FALSE,
               << <<"martini">>, <<"cocktail", "glass">>, <<"up">> >>),
       Pattern("rocks", "glass.rocks", FALSE,
               << <<"rocks">>, <<"old", "fashioned">>, <<"lowball">>, <<"on", "the", "rocks">> >>),
       Pattern("coupe", "glass.coupe", FALSE,
               << <<"coupe">>, <<"champagne", "coupe">> >>),
       Pattern("highball", "glass.highball", FALSE,
               << <<"highball">>, <<"collins">>, <<"tall", "glass">> >>),
       Pattern("nick", "glass.nick", FALSE,
               << <<"nick", "and", "nora">>, <<"small", "coupe">> >>) >>

MethodPatterns ==
    << Pattern("shake", "methods.shake", FALSE,
               << <<"shake">>, <<"shaken">>, <<"vigorous">> >>),
       Pattern("stir", "methods.stir", FALSE,
               << <<"stir">>, <<"stirred">>, <<"gentle">>, <<"elegant">> >>),
       Pattern("build", "methods.build", FALSE,
               << <<"build">>, <<"built">>, <<"simple">>, <<"easy">> >>),
       Pattern("muddle", "methods.muddle", FALSE,
               << <<"muddle">>, <<"muddled">>, <<"crush">>, <<"fresh">> >>) >>

DifficultyPatterns ==
    << Pattern("easy", "difficulty.easy", FALSE,
               << <<"easy">>, <<"simple">>, <<"basic">>, <<"quick">>, <<"beginner">> >>),
       Pattern("medium", "difficulty.medium", FALSE,
               << <<"medium">>, <<"intermediate">>, <<"moderate">> >>),
       Pattern("hard", "difficulty.hard", FALSE,
               << <<"hard">>, <<"complex">>, <<"advanced">>, <<"challenging">>, <<"craft">> >>) >>

MoodPatterns ==
    << Pattern("romantic", "mood.romantic", FALSE,
               << <<"romantic">>, <<"date">>, <<"intimate">>, <<"elegant">> >>),
       Pattern("party", "mood.party", FALSE,
               << <<"party">>, <<"crowd">>, <<"celebration">>, <<"fun">>, <<"festive">> >>),
       Pattern("relaxing", "mood.relaxing", FALSE,
               << <<"relaxing">>, <<"chill">>, <<"unwind">>, <<"calm">>, <<"peaceful">> >>),
       Pattern("sophisticated", "mood.sophisticated", FALSE,
               << <<"sophisticated">>, <<"classy">>, <<"upscale">>, <<"refined">> >>) >>

OccasionPatterns ==
    << Pattern("dinner", "occasion.dinner", FALSE,
               << <<"dinner">>, <<"meal">>, <<"food">>, <<"pairing">> >>),
       Pattern("brunch", "occasion.brunch", FALSE,
               << <<"brunch">>, <<"morning">>, <<"breakfast">>, <<"daytime">> >>),
       Pattern("nightcap", "occasion.nightcap", FALSE,
               << <<"nightcap">>, <<"bedtime">>, <<"digestif">>, <<"after", "dinner">> >>),
       Pattern("summer", "occasion.summer", FALSE,
               << <<"summer">>, <<"hot">>, <<"beach">>, <<"poolside">>, <<"warm", "weather">> >>),
       Pattern("winter", "occasion.winter", FALSE,
               << <<"winter">>, <<"cold">>, <<"holiday">>, <<"warming">>, <<"cozy">> >>) >>

IngredientsPattern ==
    Pattern("ingredients", "ingredients", TRUE,
            << <<"campari">>, <<"aperol">>, <<"vermouth">>, <<"bitters">>, <<"cointreau">>,
               <<"triple", "sec">>, <<"chartreuse">>, <<"benedictine">>, <<"maraschino">>,
               <<"elderflower">>, <<"st", "germain">> >>)

\* /\b(without|no|avoid|except|not|skip|minus)\s+(\w+(?:\s+\w+)?)/gi
ExcludePattern ==
    Pattern("exclude", "exclude", TRUE,
            << <<"without">>, <<"no">>, <<"avoid">>, <<"except">>, <<"not">>, <<"skip">>, <<"minus">> >>)

SingleCategories ==
    <<StrengthPatterns, SpiritPatterns, GlassPatterns, MethodPatterns,
      DifficultyPatterns, MoodPatterns, OccasionPatterns>>

AllPatterns ==
    UNION {{c[n] : n \in 1..Len(c)} : c \in {SingleCategories[k] : k \in 1..Len(SingleCategories)}}
    \cup {FlavorPatterns[n] : n \in 1..Len(FlavorPatterns)}
    \cup {IngredientsPattern, ExcludePattern}

PatternNames == {re.name : re \in AllPatterns}

\* a RegExp literal starts with lastIndex 0
ZeroIndex == [n \in PatternNames |-> 0]

----------------------------------------------------------------------------
(* QueryParser.parse *)

Undefined == "undefined"

ScanCategoryNoBreak(cat, str, li, n) ==
    LET hits == {k \in n..Len(cat) : RegExpTest(cat[k], str, li[cat[k].name]).matched}
    IN  [value |-> IF hits = {} THEN Undefined
                   ELSE cat[CHOOSE k \in hits : \A j \in hits : j <= k].tag,
         lastIndex |-> li]

RECURSIVE ScanCategory(_, _, _, _)

\* the n-th pattern of the category was tested with the outcome t
Tested(cat, str, li, n, t) ==
    IF t.matched
    THEN [value |-> cat[n].tag, lastIndex |-> [li EXCEPT ![cat[n].name] = t.lastIndex]]
    ELSE ScanCategory(cat, str, [li EXCEPT ![cat[n].name] = t.lastIndex], n + 1)

\* for (const [tag, pattern] of Object.entries(category))
\*     if (pattern.test(lowerQuery)) { result.facet = tag; break; }
ScanCategory(cat, str, li, n) ==
    IF n > Len(cat) THEN [value |-> Undefined, lastIndex |-> li]
    ELSE Tested(cat, str, li, n, RegExpTest(cat[n], str, li[cat[n].name]))

\* the flavor tag goes before those of the patterns behind it
Pushed(tags, rest) == [value |-> tags \o rest.value, lastIndex |-> rest.lastIndex]

RECURSIVE ScanFlavorsPerMatch(_, _, _, _)
ScanFlavorsPerMatch(cat, str, li, n) ==
    IF n > Len(cat) THEN [value |-> <<>>, lastIndex |-> li]
    ELSE LET m == StringMatch(str, cat[n], li[cat[n].name])
         IN  Pushed([k \in 1..Len(m.matches) |-> cat[n].tag],
                    ScanFlavorsPerMatch(cat, str, [li EXCEPT ![cat[n].name] = m.lastIndex], n + 1))

RECURSIVE ScanFlavorsTest(_, _, _, _)
ScanFlavorsTest(cat, str, li, n) ==
    IF n > Len(cat) THEN [value |-> <<>>, lastIndex |-> li]
    ELSE LET t == RegExpTest(cat[n], str, li[cat[n].name])
         IN  Pushed(IF t.matched THEN <<cat[n].tag>> ELSE <<>>,
                    ScanFlavorsTest(cat, str, [li EXCEPT ![cat[n].name] = t.lastIndex], n + 1))

RECURSIVE ScanFlavors(_, _, _, _)

\* the n-th flavor pattern was matched with the outcome m
Matched(cat, str, li, n, m) ==
    Pushed(IF m.isNull THEN <<>> ELSE <<cat[n].tag>>,
           ScanFlavors(cat, str, [li EXCEPT ![cat[n].name] = m.lastIndex], n + 1))

\* for (const [flavor, pattern] of Object.entries(this.patterns.flavors))
\*     if (query.match(pattern)) result.flavors.push(flavor);
ScanFlavors(cat, str, li, n) ==
    IF n > Len(cat) THEN [value |-> <<>>, lastIndex |-> li]
    ELSE Matched(cat, str, li, n, StringMatch(str, cat[n], li[cat[n].name]))

\* where the whitespace run that begins at token i ends (i itself if none)
RECURSIVE SkipWhitespace(_, _)
SkipWhitespace(str, i) ==
    IF i <= Len(str) /\ str[i] \in Whitespace THEN SkipWhitespace(str, i + 1) ELSE i

\* the exclude pattern behind its trigger word: \s+ ends at w1, where a word
\* must be; if whitespace (up to w2) and a word follow, these are taken too;
\* 0 or the index behind the match
ExcludeTail(str, i, w1, w2) ==
    IF w1 = i + 1 \/ w1 > Len(str) \/ ~IsWord(str[w1]) THEN 0
    ELSE IF w2 > w1 + 1 /\ w2 <= Len(str) /\ IsWord(str[w2]) THEN w2 + 1
    ELSE w1 + 1

\* the exclude pattern at token i: 0 or the index behind the match
ExcludeEnd(str, i) ==
    IF MatchEnd(ExcludePattern, str, i) = 0 THEN 0
    ELSE ExcludeTail(str, i, SkipWhitespace(str, i + 1),
                     SkipWhitespace(str, SkipWhitespace(str, i + 1) + 1))

RECURSIVE ExcludeMatches(_, _)

\* a bug: the search goes on behind the trigger word of a match
ExcludeFromOverlapping(str, at) ==
    IF at = {} THEN <<>>
    ELSE LET i == CHOOSE j \in at : \A k \in at : j <= k
         IN  <<[index |-> i, group2 |-> SkipWhitespace(str, i + 1), end |-> ExcludeEnd(str, i)]>>
             \o ExcludeMatches(str, i)

\* the match at the least of these positions, and those behind it
ExcludeFrom(str, at) ==
    IF at = {} THEN <<>>
    ELSE LET i == CHOOSE j \in at : \A k \in at : j <= k
         IN  <<[index |-> i, group2 |-> SkipWhitespace(str, i + 1), end |-> ExcludeEnd(str, i)]>>
             \o ExcludeMatches(str, ExcludeEnd(str, i) - 1)

\* the matches of the exclude pattern from `from` on, each with where its
\* second group begins
ExcludeMatches(str, from) ==
    ExcludeFrom(str, {i \in (from + 1)..Len(str) : ExcludeEnd(str, i) # 0})

\* String.prototype.matchAll: the iterator runs on a clone of the RegExp that
\* starts at the original's lastIndex; the original is left alone.  A RegExp
\* without the g flag makes matchAll throw a TypeError.
StringMatchAll(str, re, li) ==
    [threw |-> ~re.global,
     matches |-> IF re.global THEN ExcludeMatches(str, li) ELSE <<>>,
     lastIndex |-> li]

\* a bug: excludeMatches.map(match => match[0].toLowerCase())
WholeMatches(str, all) ==
    [threw |-> all.threw,
     value |-> [n \in 1..Len(all.matches) |->
                   JoinTokens(LowerQuery(SubSeq(str, all.matches[n].index,
                                                all.matches[n].end - 1)))],
     lastIndex |-> all.lastIndex]

\* excludeMatches.map(match => match[2].toLowerCase())
SecondGroups(str, all) ==
    [threw |-> all.threw,
     value |-> [n \in 1..Len(all.matches) |->
                   JoinTokens(LowerQuery(SubSeq(str, all.matches[n].group2,
                                                all.matches[n].end - 1)))],
     lastIndex |-> all.lastIndex]

ExtractExcludes(str, li) == SecondGroups(str, StringMatchAll(str, ExcludePattern, li))

\* a bug: ing.toLowerCase() only
LowerCased(toks) == JoinTokens(LowerQuery(toks))

\* ing.toLowerCase().replace(/[\s-]+/g, ' ') on the tokens of one match
RECURSIVE Normalize(_)
Normalize(toks) ==
    IF toks = <<>> THEN ""
    ELSE IF Head(toks) \in SpaceOrHyphen
    THEN IF Tail(toks) # <<>> /\ Head(Tail(toks)) \in SpaceOrHyphen
         THEN Normalize(Tail(toks))
         ELSE " " \o Normalize(Tail(toks))
    ELSE ToLowerCase(Head(toks)) \o Normalize(Tail(toks))

\* ingredientMatches.map(ing => ing.toLowerCase().replace(/[\s-]+/g, ' '));
\* reading map of null throws a TypeError
MapIngredients(str, m) ==
    [threw |-> m.isNull,
     value |-> [n \in 1..Len(m.matches) |->
                   Normalize(SubSeq(str, m.matches[n].index, m.matches[n].end - 1))],
     lastIndex |-> m.lastIndex]

\* if (ingredientMatches) result.ingredients = ingredientMatches.map(...)
Guarded(str, m) ==
    IF m.isNull
    THEN [threw |-> FALSE, value |-> <<>>, lastIndex |-> m.lastIndex]
    ELSE MapIngredients(str, m)

ExtractIngredientsUnguarded(str, li) ==
    MapIngredients(str, StringMatch(str, IngredientsPattern, li))

\* const ingredientMatches = query.match(this.patterns.ingredients);
\* if (ingredientMatches) result.ingredients = ingredientMatches.map(...)
ExtractIngredients(str, li) ==
    Guarded(str, StringMatch(str, IngredientsPattern, li))

EmptyQuery ==
    [strength |-> Undefined, flavors |-> <<>>, spirit |-> Undefined, glass |-> Undefined,
     excludes |-> <<>>, ingredients |-> <<>>, method |-> Undefined,
     difficulty |-> Undefined, mood |-> Undefined, occasion |-> Undefined]

\* the pattern tables in the order in which parse goes through them
Categories ==
    <<StrengthPatterns, FlavorPatterns, SpiritPatterns, GlassPatterns, MethodPatterns,
      DifficultyPatterns, MoodPatterns, OccasionPatterns>>

\* the table that holds the RegExp of this name
CategoryOf(name) ==
    CHOOSE k \in 1..Len(Categories) :
        \E n \in 1..Len(Categories[k]) : Categories[k][n].name = name

\* return result, and the lastIndex values the call leaves: those of a table
\* as its scan left them; `scans` are the outcomes of the loops in the order
\* of Categories
Result(scans, excludes, ingredients) ==
    [threw |-> excludes.threw \/ ingredients.threw,
     value |-> [strength |-> scans[1].value, flavors |-> scans[2].value,
                spirit |-> scans[3].value, glass |-> scans[4].value,
                excludes |-> excludes.value, ingredients |-> ingredients.value,
                method |-> scans[5].value, difficulty |-> scans[6].value,
                mood |-> scans[7].value, occasion |-> scans[8].value],
     lastIndex |-> [name \in PatternNames |->
                       IF name = ExcludePattern.name THEN excludes.lastIndex
                       ELSE IF name = IngredientsPattern.name THEN ingredients.lastIndex
                       ELSE scans[CategoryOf(name)].lastIndex[name]]]

\* parse(query) with the pattern table in the state li: the ParsedQuery, whether
\* the call threw, and the lastIndex values it leaves.  A RegExp is used by
\* one step of parse only, so every step finds the lastIndex values of its
\* own patterns as they were at the call.
Parse(str, li) ==
    Result(<<ScanCategory(StrengthPatterns, LowerQuery(str), li, 1),
             ScanFlavors(FlavorPatterns, str, li, 1),
             ScanCategory(SpiritPatterns, LowerQuery(str), li, 1),
             ScanCategory(GlassPatterns, LowerQuery(str), li, 1),
             ScanCategory(MethodPatterns, LowerQuery(str), li, 1),
             ScanCategory(DifficultyPatterns, LowerQuery(str), li, 1),
             ScanCategory(MoodPatterns, LowerQuery(str), li, 1),
             ScanCategory(OccasionPatterns, LowerQuery(str), li, 1)>>,
           ExtractExcludes(str, li[ExcludePattern.name]),
           ExtractIngredients(str, li[IngredientsPattern.name]))

\* `again` tells that the call before this one was made on the same text
NotParsed == [done |-> FALSE, threw |-> FALSE, value |-> EmptyQuery, again |-> FALSE]

\* the texts of the spec's examples
GinMartini ==
    <<"gin", Space, "martini", Comma, Space, "stirred", Comma, Space, "easy">>

BitterStrong ==
    <<"a", Space, "bitter", Comma, Space, "strong", Space, "drink", Space, "without", Space, "lime">>

\* a text that names an ingredient twice and one with a hyphen
CampariTwice ==
    <<"Campari", Comma, Space, "Triple", Hyphen, "sec", Space, "campari">>

\* a text in which a trigger word of the exclude pattern follows another one
NotWithoutLime ==
    <<"Not", Space, "without", Space, "Lime">>

Examples == {GinMartini, BitterStrong, CampariTwice, NotWithoutLime}

ParseInit ==
    /\ query = <<>>
    /\ parsed = NotParsed
    /\ lastIndex = ZeroIndex
    /\ parses = 0

\* the caller writes one more token of the text it is going to parse
Type(tok) ==
    /\ Len(query) < MaxLen
    /\ query # <<>> /\ IsWord(tok) => ~IsWord(query[Len(query)])
    /\ query' = Append(query, tok)
    /\ parsed' = NotParsed
    /\ UNCHANGED <<lastIndex, parses>>

\* the caller takes one of the example texts
TakeExample(text) ==
    /\ query # text
    /\ query' = text
    /\ parsed' = NotParsed
    /\ UNCHANGED <<lastIndex, parses>>

\* the caller starts a new text
NewText ==
    /\ query # <<>>
    /\ query' = <<>>
    /\ parsed' = NotParsed
    /\ UNCHANGED <<lastIndex, parses>>

\* the call returns r.value, or throws, and leaves r.lastIndex in the table
Returns(r) ==
    /\ parsed' = [done |-> TRUE, threw |-> r.threw, value |-> r.value, again |-> parsed.done]
    /\ lastIndex' = r.lastIndex

\* QueryParser.parse(query)
ParseCall ==
    /\ parses < MaxParses
    /\ parses' = parses + 1
    /\ Returns(Parse(query, lastIndex))
    /\ UNCHANGED query

ParseNext ==
    \/ \E tok \in Tokens : Type(tok)
    \/ \E text \in Examples : TakeExample(text)
    \/ NewText
    \/ ParseCall

----------------------------------------------------------------------------
(* QueryParser.enhanceSearchArgs *)

\* JavaScript values: undefined, null, a string, an array of strings
JsUndefined == [type |-> "undefined", str |-> "", arr |-> <<>>]

JsNull == [type |-> "null", str |-> "", arr |-> <<>>]

JsString(text) == [type |-> "string", str |-> text, arr |-> <<>>]

JsArray(elems) == [type |-> "array", str |-> "", arr |-> elems]

\* ToBoolean: undefined, null and "" are falsy, every array is truthy
Truthy(v) == v.type = "array" \/ (v.type = "string" /\ v.str # "")

\* a facet of a ParsedQuery as a JavaScript value
Facet(tag) == IF tag = Undefined THEN JsUndefined ELSE JsString(tag)

\* an object is a function from the names of its own properties
EmptyObject == [f \in {} |-> JsUndefined]

HasOwn(obj, f) == f \in DOMAIN obj

\* obj.f
Get(obj, f) == IF HasOwn(obj, f) THEN obj[f] ELSE JsUndefined

\* obj.f = v
Put(obj, f, v) == [g \in DOMAIN obj \cup {f} |-> IF g = f THEN v ELSE obj[g]]

\* the two objects of a call: the one the caller handed in as args and the
\* one the constant `enhanced` names; `same` tells that they are one object

\* a bug: const enhanced = args
SameObject(a) == [args |-> a, enhanced |-> a, same |-> TRUE]

\* const enhanced = { ...args }: a new object with the own properties of args
ShallowCopy(a) == [args |-> a, enhanced |-> a, same |-> FALSE]

\* enhanced.f = v
Assign(h, f, v) ==
    IF h.same
    THEN [h EXCEPT !.args = Put(@, f, v), !.enhanced = Put(@, f, v)]
    ELSE [h EXCEPT !.enhanced = Put(@, f, v)]

\* if (parsedQuery.facet && !args.field) enhanced.field = parsedQuery.facet
ApplyPreference(h, field, tag) ==
    IF Truthy(Facet(tag)) /\ ~Truthy(Get(h.args, field)) THEN Assign(h, field, Facet(tag)) ELSE h

\* if (parsedQuery.flavors.length > 0 && !args.preferred_flavors)
\*     enhanced.preferred_flavors = parsedQuery.flavors
ApplyFlavors(h, flavors) ==
    IF Len(flavors) > 0 /\ ~Truthy(Get(h.args, "preferred_flavors"))
    THEN Assign(h, "preferred_flavors", JsArray(flavors))
    ELSE h

\* [...(args.field || []), ...found]
SpreadBothFoundFirst(v, found) ==
    found \o (IF Truthy(v) THEN v.arr ELSE <<>>)

SpreadBoth(v, found) ==
    (IF Truthy(v) THEN v.arr ELSE <<>>) \o found

\* if (found.length > 0) enhanced.field = [...(args.field || []), ...found]
AddTo(h, field, found) ==
    IF Len(found) > 0
    THEN Assign(h, field, JsArray(SpreadBoth(Get(h.args, field), found)))
    ELSE h

\* a bug: the spirit found is required as an ingredient
EnhanceSearchArgsWithSpirit(a, p) ==
    ApplyPreference(
        ApplyPreference(
            AddTo(AddTo(ApplyFlavors(ApplyPreference(ShallowCopy(a), "preferred_strength",
                                                     p.strength),
                                     p.flavors),
                        "must_include",
                        p.ingredients \o (IF p.spirit = Undefined THEN <<>> ELSE <<p.spirit>>)),
                  "must_exclude", p.excludes),
            "glass_type", p.glass),
        "preparation_method", p.method)

\* the two objects when the call returns `enhanced`
EnhanceSearchArgs(a, p) ==
    ApplyPreference(
        ApplyPreference(
            AddTo(AddTo(ApplyFlavors(ApplyPreference(ShallowCopy(a), "preferred_strength",
                                                     p.strength),
                                     p.flavors),
                        "must_include", p.ingredients),
                  "must_exclude", p.excludes),
            "glass_type", p.glass),
        "preparation_method", p.method)

\* what the caller may put into each field of args; Absent leaves it out
Absent == [type |-> "absent", str |-> "", arr |-> <<>>]

Supplied ==
    [preferred_strength |-> {Absent, JsString(""), JsString("strong")},
     preferred_flavors  |-> {Absent, JsArray(<<>>), JsArray(<<"sweet">>)},
     glass_type         |-> {Absent, JsString(""), JsString("rocks")},
     preparation_method |-> {Absent, JsUndefined, JsNull, JsString("shake")},
     must_include       |-> {Absent, JsArray(<<>>), JsArray(<<"gin", "campari">>)},
     must_exclude       |-> {Absent, JsArray(<<"lime">>)},
     limit              |-> {Absent, JsString("10")}]

Fields == DOMAIN Supplied

ArgsUsed ==
    {[f \in {g \in Fields : c[g] # Absent} |-> c[f]] :
        c \in [preferred_strength : Supplied.preferred_strength,
               preferred_flavors : Supplied.preferred_flavors,
               glass_type : Supplied.glass_type,
               preparation_method : Supplied.preparation_method,
               must_include : Supplied.must_include,
               must_exclude : Supplied.must_exclude,
               limit : Supplied.limit]}

\* the facets of a ParsedQuery that enhanceSearchArgs has no statement for:
\* none of them found, or all of them
OtherFacets ==
    {[spirit |-> Undefined, difficulty |-> Undefined, mood |-> Undefined, occasion |-> Undefined],
     [spirit |-> "gin", difficulty |-> "easy", mood |-> "romantic", occasion |-> "summer"]}

\* the ParsedQuery values handed to enhanceSearchArgs
ParsedQueriesUsed ==
    {[EmptyQuery EXCEPT !.strength = s, !.flavors = fl, !.glass = g, !.method = m,
                        !.ingredients = ing, !.excludes = ex,
                        !.spirit = o.spirit, !.difficulty = o.difficulty,
                        !.mood = o.mood, !.occasion = o.occasion] :
        s \in {Undefined, "light"}, fl \in {<<>>, <<"bitter", "sour">>},
        g \in {Undefined, "coupe"}, m \in {Undefined, "stir"},
        ing \in {<<>>, <<"campari">>, <<"campari", "triple sec">>},
        ex \in {<<>>, <<"lime">>}, o \in OtherFacets}

\* `fresh` tells that the object returned is not the args object
NotEnhanced == [done |-> FALSE, value |-> EmptyObject, fresh |-> FALSE]

\* nothing was handed to enhanceSearchArgs
EnhanceIdle ==
    /\ args = EmptyObject
    /\ parsedQuery = EmptyQuery
    /\ enhanced = NotEnhanced

EnhanceInit ==
    /\ args \in ArgsUsed
    /\ parsedQuery \in ParsedQueriesUsed
    /\ enhanced = NotEnhanced

\* the call returns h.enhanced and leaves the caller's object as h.args
ReturnsEnhanced(h) ==
    /\ enhanced' = [done |-> TRUE, value |-> h.enhanced, fresh |-> ~h.same]
    /\ args' = h.args

\* QueryParser.enhanceSearchArgs(args, parsedQuery)
EnhanceCall ==
    /\ ReturnsEnhanced(EnhanceSearchArgs(args, parsedQuery))
    /\ UNCHANGED parsedQuery

----------------------------------------------------------------------------
(* Specifications *)

\* the CacheManager
Init == CacheInit /\ ParseInit /\ EnhanceIdle

Next == CacheNext /\ UNCHANGED <<parseVars, enhanceVars>>

Spec == Init /\ [][Next]_vars

\* the CacheManager of the two other specifications: constructed, not used
CacheIdle == CacheInit /\ options = [ttl |-> Omitted, maxSize |-> Omitted]

\* QueryParser.parse
ParseSpecInit == CacheIdle /\ ParseInit /\ EnhanceIdle

ParseSpecNext == ParseNext /\ UNCHANGED <<cacheVars, enhanceVars>>

ParseSpec == ParseSpecInit /\ [][ParseSpecNext]_vars

\* QueryParser.enhanceSearchArgs
EnhanceSpecInit == CacheIdle /\ ParseInit /\ EnhanceInit

EnhanceSpecNext == EnhanceCall /\ UNCHANGED <<cacheVars, parseVars>>

EnhanceSpec == EnhanceSpecInit /\ [][EnhanceSpecNext]_vars

----------------------------------------------------------------------------
(* Properties of the Cache Manager *)

Entry(cache, k) == MapGet(cache, k)

\* this step is the call `name` (a Tick leaves `returned` alone and moves `now`)
CallIs(name) == now' = now /\ returned'.call = name

CallKey == returned'.key[1]

\* score(a) <= score(b) at time t, with accessCount / 0 read as +Infinity
ScoreLeq(a, b, t) ==
    IF t - b.timestamp = 0 THEN TRUE
    ELSE IF t - a.timestamp = 0 THEN FALSE
    ELSE a.accessCount * (t - b.timestamp) <= b.accessCount * (t - a.timestamp)

\* the step set(k, data) on a collection leaves a fresh entry holding data
SetStores(after, k) ==
    /\ MapHas(after, k)
    /\ Entry(after, k).data \in Payloads(k, now)
    /\ Entry(after, k).accessCount = 1

\* the step get(k) on a collection whose entry for k was set at t0, less than
\* ttl ago, returns the payload of that set and counts one access
GetReturnsSet(before, after, t0, k) ==
    (MapHas(before, k) /\ now - t0 < cacheExpiry) =>
        /\ returned'.data \in Payloads(k, t0)
        /\ MapHas(after, k)
        /\ Entry(after, k).accessCount = Entry(before, k).accessCount + 1

\* a get that returns a value adds exactly one to the entry's accessCount
GetCounts(before, after, k) ==
    returned'.data # Null =>
        /\ MapHas(before, k) /\ MapHas(after, k)
        /\ Entry(after, k).accessCount = Entry(before, k).accessCount + 1
        /\ Entry(after, k).data = returned'.data

C1_Step ==
    /\ CallIs("setCachedRecipe") => SetStores(recipeCache', CallKey)
    /\ CallIs("setCachedSearch") => SetStores(searchCache', CallKey)
    /\ CallIs("getCachedRecipe") =>
          /\ GetReturnsSet(recipeCache, recipeCache', writtenAt.recipe[CallKey], CallKey)
          /\ GetCounts(recipeCache, recipeCache', CallKey)
    /\ CallIs("getCachedSearch") =>
          /\ GetReturnsSet(searchCache, searchCache', writtenAt.search[CallKey], CallKey)
          /\ GetCounts(searchCache, searchCache', CallKey)

\* C1: in either collection a set(k, v) leaves an entry for k with value v and
\* accessCount 1, also when the set ran an eviction sweep at capacity; a get
\* of k before ttl has elapsed since that set returns v, and every get that
\* returns the value raises the entry's accessCount by exactly 1.
C1_GetAfterSet == [][C1_Step]_vars

\* a get returned the value of key 5, which was set when the collection was
\* full (keys 1..4 present) and so ran the sweep; its accessCount went 1 -> 2
C1_Witness ==
    /\ returned.call = "getCachedRecipe" /\ returned.did = "hit"
    /\ returned.key = <<5>>
    /\ sweeps = 1
    /\ MapHas(recipeCache, 5)
    /\ returned.data = Entry(recipeCache, 5).data
    /\ Entry(recipeCache, 5).accessCount = 2

\* the step get(k) on a collection holding an entry for k written at t0
StrictTtl(before, after, sizeBefore, sizeAfter, t0, k) ==
    MapHas(before, k) =>
        IF now - t0 < cacheExpiry
        THEN /\ returned'.data = Entry(before, k).data
             /\ returned'.data \in Payloads(k, t0)
             /\ MapHas(after, k)
             /\ Entry(after, k).timestamp = Entry(before, k).timestamp
             /\ sizeAfter = sizeBefore
        ELSE /\ returned'.data = Null
             /\ ~MapHas(after, k)
             /\ sizeAfter = sizeBefore - 1

C2_Step ==
    /\ CallIs("getCachedRecipe") =>
          StrictTtl(recipeCache, recipeCache',
                    Stats(recipeCache, searchCache).recipeCacheSize,
                    Stats(recipeCache', searchCache').recipeCacheSize,
                    writtenAt.recipe[CallKey], CallKey)
    /\ CallIs("getCachedSearch") =>
          StrictTtl(searchCache, searchCache',
                    Stats(recipeCache, searchCache).searchCacheSize,
                    Stats(recipeCache', searchCache').searchCacheSize,
                    writtenAt.search[CallKey], CallKey)

\* C2: strict, lazy TTL. For an entry written at t0 and still in its
\* collection, a get at now - t0 < ttl returns its data and leaves its
\* timestamp alone, however many gets came before; a get at now - t0 >= ttl
\* returns absent and deletes the entry, and the reported size drops by one.
C2_StrictLazyTtl == [][C2_Step]_vars

\* a get has just found an entry of age >= ttl and deleted it, while another
\* entry that was read before is still there
C2_Witness ==
    /\ returned.call = "getCachedRecipe" /\ returned.did = "expired"
    /\ \E i \in 1..Len(recipeCache) : recipeCache[i].accessCount = 2

\* C3: the number of entries of either collection is at most maxSize.
C3_SizeBounded ==
    /\ Len(recipeCache) <= maxCacheSize
    /\ Len(searchCache) <= maxCacheSize

\* the step set(k, data) on a collection of exactly maxSize entries: some set
\* R of floor(maxSize * 0.25) lowest-scored keys is gone, every other entry is
\* as it was, and the new entry is in (behind the others if k was new or in R)
SweepThenInsert(before, after, k) ==
    Len(before) = maxCacheSize =>
        \E R \in SUBSET MapKeys(before) :
            /\ Cardinality(R) = ToRemove(maxCacheSize)
            /\ \A r \in R : \A s \in MapKeys(before) \ R :
                   ScoreLeq(Entry(before, r), Entry(before, s), now)
            /\ MapKeys(after) = (MapKeys(before) \ R) \cup {k}
            /\ \A s \in MapKeys(before) \ (R \cup {k}) : Entry(after, s) = Entry(before, s)
            /\ Entry(after, k).timestamp = now /\ Entry(after, k).accessCount = 1
            /\ Len(after) = maxCacheSize - ToRemove(maxCacheSize)
                             + (IF k \in MapKeys(before) \ R THEN 0 ELSE 1)
            /\ (k \in R \/ k \notin MapKeys(before)) => after[Len(after)].key = k

C4_Step ==
    /\ CallIs("setCachedRecipe") => SweepThenInsert(recipeCache, recipeCache', CallKey)
    /\ CallIs("setCachedSearch") => SweepThenInsert(searchCache, searchCache', CallKey)

\* C4: a set on a collection of exactly maxSize entries removes exactly
\* floor(maxSize * 0.25) entries, those of lowest accessCount / age, before it
\* inserts the new entry.
C4_SweepRemovesLowest == [][C4_Step]_vars

\* a set on the full search collection has swept one entry away and appended
\* the new key, while entries of different scores were present
C4_Witness ==
    /\ returned.call = "setCachedSearch" /\ returned.did = "swept"
    /\ returned.key = <<"q5">>
    /\ Len(searchCache) = maxCacheSize
    /\ \E i, j \in 1..Len(searchCache) :
          ~ScoreLeq(searchCache[i], searchCache[j], now)

\* C11: no call of the cache throws, a set that runs a sweep included, and
\* a get for a key without an entry returns null and changes neither
\* collection.
C11_Step ==
    /\ returned'.did # "threw"
    /\ CallIs("getCachedRecipe") /\ ~MapHas(recipeCache, CallKey) =>
          /\ returned'.data = Null
          /\ recipeCache' = recipeCache
          /\ searchCache' = searchCache
    /\ CallIs("getCachedSearch") /\ ~MapHas(searchCache, CallKey) =>
          /\ returned'.data = Null
          /\ recipeCache' = recipeCache
          /\ searchCache' = searchCache

C11_NeverThrows == [][C11_Step]_vars

\* a get for the key that a sweep has deleted
C11_Witness ==
    /\ returned.call = "getCachedRecipe"
    /\ returned.did = "miss"
    /\ returned.data = Null
    /\ sweeps = 1
    /\ Len(recipeCache) = maxCacheSize

\* the step set(k, v) on a collection with a live entry for k leaves the
\* entry (v, now, 1)
Replaces(before, after, k) ==
    (MapHas(before, k) /\ now - Entry(before, k).timestamp < cacheExpiry) =>
        /\ MapHas(after, k)
        /\ Entry(after, k).data \in Payloads(k, now)
        /\ Entry(after, k).timestamp = now
        /\ Entry(after, k).accessCount = 1

C12_Step ==
    /\ CallIs("setCachedRecipe") => Replaces(recipeCache, recipeCache', CallKey)
    /\ CallIs("setCachedSearch") => Replaces(searchCache, searchCache', CallKey)

\* C12: a set on a key that has a live entry leaves an entry with the new
\* value, the time of this set as timestamp and accessCount 1; nothing of the
\* previous entry's access count or age is kept.
C12_SetReplaces == [][C12_Step]_vars

\* a set at time 2 on a key whose entry had been read (accessCount 2) and,
\* with the default ttl, was live
C12_Witness ==
    /\ returned.call = "setCachedSearch"
    /\ returned.found = 2
    /\ cacheExpiry = DefaultTtl
    /\ now = 2
    /\ MapHas(searchCache, returned.key[1])
    /\ Entry(searchCache, returned.key[1]).accessCount = 1
    /\ Entry(searchCache, returned.key[1]).timestamp = 2

\* no set of k was made since the last clear (or since construction)
NotSetSince(written, k) == written[k] = -1

C13_Step ==
    /\ CallIs("clear") =>
          /\ recipeCache' = <<>>
          /\ searchCache' = <<>>
          /\ Stats(recipeCache', searchCache').recipeCacheSize = 0
          /\ Stats(recipeCache', searchCache').searchCacheSize = 0
    /\ CallIs("getCachedRecipe") /\ NotSetSince(writtenAt.recipe, CallKey) =>
          returned'.data = Null
    /\ CallIs("getCachedSearch") /\ NotSetSince(writtenAt.search, CallKey) =>
          returned'.data = Null

\* C13: right after clear both collections are empty (both sizes 0), whatever
\* they held, and a get of a key returns null until the key is set again.
C13_ClearEmpties == [][C13_Step]_vars

\* a clear that found two entries in each collection
C13_Witness ==
    /\ returned.call = "clear"
    /\ returned.found = 4
    /\ maxCacheSize # 4
    /\ recipeCache = <<>>
    /\ searchCache = <<>>

\* C15: a get or set on the recipe collection, with the expiry deletion or
\* the sweep it runs, leaves the search collection as it was, and a get or
\* set on the search collection leaves the recipe collection as it was.
C15_Step ==
    /\ (CallIs("getCachedRecipe") \/ CallIs("setCachedRecipe")) => searchCache' = searchCache
    /\ (CallIs("getCachedSearch") \/ CallIs("setCachedSearch")) => recipeCache' = recipeCache

C15_Independent == [][C15_Step]_vars

\* a set on the search collection has swept it while the recipe collection
\* held an entry, which is still there
C15_Witness ==
    /\ returned.call = "setCachedSearch"
    /\ returned.did = "swept"
    /\ Len(searchCache) = maxCacheSize
    /\ Len(recipeCache) = 1
    /\ recipeCache[1].key = 1

\* the value the cache is to use for a parameter of the constructor
GivenOr(opt, default) == IF opt.given THEN opt.value ELSE default

\* C20: the cache uses the ttl and the maxSize given at construction, whatever
\* their values, and the default (5 minutes, 1000) only for a parameter that
\* is omitted; the one pair serves both collections.
C20_UsesGiven ==
    /\ cacheExpiry = GivenOr(options.ttl, DefaultTtl)
    /\ maxCacheSize = GivenOr(options.maxSize, DefaultMaxSize)

\* a get or a set of either collection
GetOrSet ==
    \/ CallIs("getCachedRecipe") \/ CallIs("setCachedRecipe")
    \/ CallIs("getCachedSearch") \/ CallIs("setCachedSearch")

\* C21: over the get and set calls the hit count that getStats reports for a
\* collection never decreases, and a get that returns a value adds one to it.
C21_Step ==
    GetOrSet =>
        /\ Stats(recipeCache', searchCache').recipeCacheHits
               >= Stats(recipeCache, searchCache).recipeCacheHits
        /\ Stats(recipeCache', searchCache').searchCacheHits
               >= Stats(recipeCache, searchCache).searchCacheHits
        /\ (CallIs("getCachedRecipe") /\ returned'.did = "hit") =>
               Stats(recipeCache', searchCache').recipeCacheHits
                   = Stats(recipeCache, searchCache).recipeCacheHits + 1
        /\ (CallIs("getCachedSearch") /\ returned'.did = "hit") =>
               Stats(recipeCache', searchCache').searchCacheHits
                   = Stats(recipeCache, searchCache).searchCacheHits + 1

C21_HitsNeverDecrease == [][C21_Step]_vars

\* the step set(k, v): below maxSize entries no key is lost; from maxSize
\* entries on the maxSize / 4 (rounded down) entries of lowest score are
\* deleted, whether k is among the keys or not, and then k is stored
SizeTriggered(before, after, k) ==
    IF Len(before) < maxCacheSize
    THEN MapKeys(after) = MapKeys(before) \cup {k}
    ELSE \E R \in SUBSET MapKeys(before) :
            /\ Cardinality(R) = maxCacheSize \div 4
            /\ \A r \in R : \A e \in MapKeys(before) \ R :
                   ScoreLeq(Entry(before, r), Entry(before, e), now)
            /\ MapKeys(after) = (MapKeys(before) \ R) \cup {k}

C22_Step ==
    /\ CallIs("setCachedRecipe") => SizeTriggered(recipeCache, recipeCache', CallKey)
    /\ CallIs("setCachedSearch") => SizeTriggered(searchCache, searchCache', CallKey)

\* C22: the size of the collection at the time of the set alone decides on
\* the sweep: below maxSize entries a set removes none, from maxSize entries
\* on it runs the sweep also when it overwrites a key, so that an overwrite
\* at capacity removes other entries.
C22_SizeTriggersSweep == [][C22_Step]_vars

\* a set has overwritten a key of the full recipe collection, and the sweep
\* has deleted another entry: the collection is one entry short of maxSize
C22_Witness ==
    /\ returned.call = "setCachedRecipe"
    /\ returned.found > 0
    /\ returned.did = "swept"
    /\ maxCacheSize = 4
    /\ Len(recipeCache) = 3
    /\ MapHas(recipeCache, returned.key[1])

\* the entries of a collection whose age is below ttl
FreshKeys(cache) ==
    {cache[i].key : i \in {j \in 1..Len(cache) : now - cache[j].timestamp < cacheExpiry}}

\* a get returns the data of fresh entries only
FreshReturned(cache) ==
    returned'.did = "hit" => CallKey \in FreshKeys(cache)

\* a set whose collection holds fewer than maxSize fresh entries deletes none
FreshCompared(before, after) ==
    Cardinality(FreshKeys(before)) < maxCacheSize => MapKeys(before) \subseteq MapKeys(after)

\* C23: an entry of age >= ttl is treated as absent: no get returns its data,
\* the sizes of getStats do not count it, and the size that a set compares
\* with maxSize does not count it.
C23_Step ==
    /\ CallIs("getCachedRecipe") => FreshReturned(recipeCache)
    /\ CallIs("getCachedSearch") => FreshReturned(searchCache)
    /\ CallIs("getStats") =>
          /\ returned'.stats.recipeCacheSize = Cardinality(FreshKeys(recipeCache))
          /\ returned'.stats.searchCacheSize = Cardinality(FreshKeys(searchCache))
    /\ CallIs("setCachedRecipe") => FreshCompared(recipeCache, recipeCache')
    /\ CallIs("setCachedSearch") => FreshCompared(searchCache, searchCache')

C23_ExpiredAbsent == [][C23_Step]_vars

\* the sort of the sweep of this set compares scores: the collection holds
\* maxSize entries or more, and at least two
Scores(cache) == Len(cache) >= maxCacheSize /\ Len(cache) >= 2

\* every entry of the collection has an age above 0
AgesPositive(cache) == \A i \in 1..Len(cache) : now - cache[i].timestamp > 0

\* C24: whenever a sweep scores the entries of a collection, every entry has
\* an age now - timestamp above 0, so that accessCount / age is finite, also
\* when several sets happen within one tick of the clock.
C24_Step ==
    /\ (CallIs("setCachedRecipe") /\ Scores(recipeCache)) => AgesPositive(recipeCache)
    /\ (CallIs("setCachedSearch") /\ Scores(searchCache)) => AgesPositive(searchCache)

C24_AgePositive == [][C24_Step]_vars

----------------------------------------------------------------------------
(* Properties of QueryParser.enhanceSearchArgs *)

PreferenceFields == {"preferred_strength", "preferred_flavors", "glass_type", "preparation_method"}

\* C5: a field among preferred_strength, preferred_flavors, glass_type and
\* preparation_method that the caller supplied, whatever its value, has the
\* caller's value in the result of enhanceSearchArgs.
C5_CallerWins ==
    enhanced.done =>
        \A f \in PreferenceFields :
            HasOwn(args, f) => HasOwn(enhanced.value, f) /\ enhanced.value[f] = args[f]

\* the sequence the caller supplied in a field, empty if the caller supplied none
CallerSequence(f) == IF HasOwn(args, f) THEN args[f].arr ELSE <<>>

Concatenated(f, found) == Get(enhanced.value, f) = JsArray(CallerSequence(f) \o found)

Untouched(f) ==
    /\ HasOwn(enhanced.value, f) <=> HasOwn(args, f)
    /\ Get(enhanced.value, f) = Get(args, f)

\* C6 as stated: must_include is always the caller's sequence followed by
\* the parsed ingredients, must_exclude the caller's sequence followed by the
\* parsed excludes; the parsed sequence alone when the caller supplied none.
C6_AlwaysConcatenated ==
    enhanced.done =>
        /\ Concatenated("must_include", parsedQuery.ingredients)
        /\ Concatenated("must_exclude", parsedQuery.excludes)

\* C6: when the parsed ingredients (excludes) are not empty, must_include
\* (must_exclude) is the caller's sequence followed by them, nothing dropped,
\* reordered or de-duplicated; when they are empty the field is left as the
\* caller supplied it, absent if the caller supplied none.
C6_Appended ==
    enhanced.done =>
        /\ IF parsedQuery.ingredients # <<>>
           THEN Concatenated("must_include", parsedQuery.ingredients)
           ELSE Untouched("must_include")
        /\ IF parsedQuery.excludes # <<>>
           THEN Concatenated("must_exclude", parsedQuery.excludes)
           ELSE Untouched("must_exclude")

C6_Witness ==
    /\ enhanced.done
    /\ Get(args, "must_include") = JsArray(<<"gin", "campari">>)
    /\ parsedQuery.ingredients = <<"campari", "triple sec">>
    /\ Get(enhanced.value, "must_include") = JsArray(<<"gin", "campari", "campari", "triple sec">>)
    /\ ~HasOwn(args, "must_exclude")
    /\ parsedQuery.excludes = <<"lime">>
    /\ Get(enhanced.value, "must_exclude") = JsArray(<<"lime">>)

\* the fields enhanceSearchArgs may write to
FacetFields == PreferenceFields \cup {"must_include", "must_exclude"}

\* C14: enhanceSearchArgs returns an object other than args and leaves args
\* as it was, its must_include and must_exclude sequences included; a field
\* of args that no facet writes to is in the result with the same value.
C14_Step ==
    (~enhanced.done /\ enhanced'.done) =>
        /\ enhanced'.fresh
        /\ args' = args
        /\ \A f \in DOMAIN args \ FacetFields :
              HasOwn(enhanced'.value, f) /\ enhanced'.value[f] = args[f]
        /\ DOMAIN enhanced'.value \subseteq DOMAIN args \cup FacetFields

C14_ArgsUntouched == [][C14_Step]_vars

\* a call that wrote a preference and both sequences next to a field of the
\* caller that no facet writes to
C14_Witness ==
    /\ enhanced.done
    /\ enhanced.fresh
    /\ Get(args, "limit") = JsString("10")
    /\ Get(enhanced.value, "limit") = JsString("10")
    /\ Get(args, "must_include") = JsArray(<<"gin", "campari">>)
    /\ Get(enhanced.value, "must_include") = JsArray(<<"gin", "campari", "campari">>)
    /\ ~HasOwn(args, "glass_type")
    /\ Get(enhanced.value, "glass_type") = JsString("coupe")
    /\ ~HasOwn(args, "must_exclude")
    /\ HasOwn(enhanced.value, "must_exclude")

\* the parsed queries that differ from p in spirit, difficulty, mood or
\* occasion at most
SameSixFacets(p) ==
    {[p EXCEPT !.spirit = sp, !.difficulty = d, !.mood = m, !.occasion = oc] :
        sp \in {Undefined, "gin", "vodka"}, d \in {Undefined, "easy"},
        m \in {Undefined, "romantic"}, oc \in {Undefined, "summer"}}

\* C25: the result of enhanceSearchArgs depends on the ParsedQuery through
\* strength, flavors, ingredients, excludes, glass and method only: parsed
\* queries that differ in spirit, difficulty, mood or occasion give equal
\* results for the same args.
C25_OnlySixFacets ==
    enhanced.done =>
        \A p \in SameSixFacets(parsedQuery) :
            EnhanceSearchArgs(args, p).enhanced = enhanced.value

\* a call with a parsed query that has a spirit, a difficulty, a mood and an
\* occasion, and a result in which the call wrote fields
C25_Witness ==
    /\ enhanced.done
    /\ parsedQuery.spirit = "gin"
    /\ parsedQuery.difficulty = "easy"
    /\ parsedQuery.mood = "romantic"
    /\ parsedQuery.occasion = "summer"
    /\ args = EmptyObject
    /\ DOMAIN enhanced.value = FacetFields

----------------------------------------------------------------------------
(* Properties of QueryParser.parse *)

\* the pattern matches somewhere in the text
Occurs(re, str) == \E i \in 1..Len(str) : MatchEnd(re, str, i) # 0

\* the first tag of the category, in declaration order, whose pattern matches
FirstMatching(cat, str) ==
    LET hits == {n \in 1..Len(cat) : Occurs(cat[n], str)}
    IN  IF hits = {} THEN Undefined
        ELSE cat[CHOOSE n \in hits : \A m \in hits : n <= m].tag

\* C7: each single-valued facet is the first tag of its category, in
\* declaration order, whose pattern matches the text, even when later tags
\* match too, and is absent exactly when no tag of the category matches.
C7_FirstMatchWins ==
    parsed.done =>
        /\ parsed.value.strength = FirstMatching(StrengthPatterns, query)
        /\ parsed.value.spirit = FirstMatching(SpiritPatterns, query)
        /\ parsed.value.glass = FirstMatching(GlassPatterns, query)
        /\ parsed.value.method = FirstMatching(MethodPatterns, query)
        /\ parsed.value.difficulty = FirstMatching(DifficultyPatterns, query)
        /\ parsed.value.mood = FirstMatching(MoodPatterns, query)
        /\ parsed.value.occasion = FirstMatching(OccasionPatterns, query)

\* a text in which two tags of the method category match: the earlier is taken
C7_Witness ==
    /\ parsed.done
    /\ \E n, m \in 1..Len(MethodPatterns) :
          /\ n < m
          /\ Occurs(MethodPatterns[n], query)
          /\ Occurs(MethodPatterns[m], query)
          /\ parsed.value.method = MethodPatterns[n].tag

\* the place of a flavor tag in the flavor table
FlavorIndex(tag) == CHOOSE n \in 1..Len(FlavorPatterns) : FlavorPatterns[n].tag = tag

\* C8: flavors holds exactly the flavor tags whose pattern matches somewhere
\* in the text, in the declaration order of the flavor table, each at most
\* once however often its pattern matches.
C8_FlavorsExact ==
    parsed.done =>
        LET flavors == parsed.value.flavors
        IN  /\ \A n \in 1..Len(FlavorPatterns) :
                  Occurs(FlavorPatterns[n], query)
                      <=> \E k \in 1..Len(flavors) : flavors[k] = FlavorPatterns[n].tag
            /\ \A j, k \in 1..Len(flavors) :
                  j < k => FlavorIndex(flavors[j]) < FlavorIndex(flavors[k])

\* a text in which a flavor pattern matches twice and two tags match
C8_Witness ==
    /\ parsed.done
    /\ Len(parsed.value.flavors) >= 2
    /\ \E n \in 1..Len(FlavorPatterns) : Len(AllMatches(FlavorPatterns[n], query, 0)) >= 2

\* C9: whatever parse calls were made before, a parse call returns what a
\* call on the same text returns with a pattern table never used before, so
\* two calls on the same text return equal values; the call leaves every
\* lastIndex of the table at 0.
C9_Step ==
    parses' = parses + 1 =>
        /\ parsed'.value = Parse(query, ZeroIndex).value
        /\ parsed'.threw = Parse(query, ZeroIndex).threw
        /\ parsed.done => parsed'.value = parsed.value
        /\ lastIndex' = ZeroIndex

C9_Deterministic == [][C9_Step]_vars

\* the second of two calls on a text in which all three patterns with the g
\* flag in use (a flavor, the exclusions, the ingredients) match
C9_Witness ==
    /\ parsed.done
    /\ parsed.again
    /\ parses = 2
    /\ parsed.value.flavors # <<>>
    /\ parsed.value.excludes # <<>>
    /\ parsed.value.ingredients # <<>>

\* no pattern of the table matches the text
NothingMatches(str) ==
    /\ \A re \in AllPatterns \ {ExcludePattern} : ~Occurs(re, str)
    /\ \A i \in 1..Len(str) : ExcludeEnd(str, i) = 0

\* C10: parse returns a ParsedQuery for every text and never throws; when no
\* pattern matches, the seven single-valued facets are absent and flavors,
\* excludes and ingredients are empty.
C10_Total ==
    parsed.done =>
        /\ ~parsed.threw
        /\ NothingMatches(query) => parsed.value = EmptyQuery

C10_Witness ==
    /\ parsed.done
    /\ ~parsed.threw
    /\ query # <<>>
    /\ NothingMatches(query)
    /\ parsed.value = EmptyQuery

\* the members of a sequence
Members(seq) == {seq[n] : n \in 1..Len(seq)}

\* C16: parse("gin martini, stirred, easy") yields spirit "gin", glass
\* "martini", method "stir" and difficulty "easy"; the method is not "build",
\* whose pattern the word "easy" matches too.
C16_GinMartini ==
    (parsed.done /\ query = GinMartini) =>
        /\ ~parsed.threw
        /\ parsed.value.spirit = "gin"
        /\ parsed.value.glass = "martini"
        /\ parsed.value.method = "stir"
        /\ parsed.value.difficulty = "easy"

\* the example text has been parsed, and the pattern of build occurs in it
C16_Witness ==
    /\ parsed.done
    /\ query = GinMartini
    /\ \E n \in 1..Len(MethodPatterns) :
          MethodPatterns[n].tag = "build" /\ Occurs(MethodPatterns[n], LowerQuery(query))

\* C17: parse("a bitter, strong drink without lime") yields strength
\* "strong", flavors that contain "bitter" and excludes that contain "lime".
C17_BitterStrong ==
    (parsed.done /\ query = BitterStrong) =>
        /\ ~parsed.threw
        /\ parsed.value.strength = "strong"
        /\ "bitter" \in Members(parsed.value.flavors)
        /\ "lime" \in Members(parsed.value.excludes)

C17_Witness ==
    /\ parsed.done
    /\ query = BitterStrong
    /\ parsed.value.excludes = <<"lime">>
    /\ parsed.value.flavors # <<>>

\* the positions of the text where a name of the ingredient vocabulary begins;
\* no name of the vocabulary begins inside another one
IngredientPositions(str) ==
    {i \in 1..Len(str) : MatchEnd(IngredientsPattern, str, i) # 0}

\* the n-th of these positions from the left
NthOf(positions, n) ==
    CHOOSE i \in positions : Cardinality({j \in positions : j < i}) = n - 1

\* the words of a name, with one space between them
RECURSIVE SpacedName(_)
SpacedName(parts) ==
    IF Len(parts) = 1 THEN Head(parts) ELSE Head(parts) \o " " \o SpacedName(Tail(parts))

\* the name of the vocabulary that the text holds at token i, in the lower-case
\* spelling of the vocabulary
NameAt(str, i) ==
    SpacedName(IngredientsPattern.alts[
        CHOOSE a \in 1..Len(IngredientsPattern.alts) :
            AltEnd(IngredientsPattern.alts[a], str, i, "") # 0])

\* C18: ingredients lists every match of the ingredient vocabulary in the
\* text, in order of appearance, lower-cased and with one space for the
\* whitespace or hyphen inside it; a name that occurs n times is listed n times.
C18_IngredientsListed ==
    parsed.done =>
        /\ Len(parsed.value.ingredients) = Cardinality(IngredientPositions(query))
        /\ \A n \in 1..Len(parsed.value.ingredients) :
              parsed.value.ingredients[n] = NameAt(query, NthOf(IngredientPositions(query), n))

\* a text with "Campari", "Triple-sec" and "campari" has been parsed
C18_Witness ==
    /\ parsed.done
    /\ query = CampariTwice
    /\ parsed.value.ingredients = <<"campari", "triple sec", "campari">>

\* the positions of the text where a phrase "trigger word, whitespace, one or
\* two words" begins
PhrasePositions(str) == {i \in 1..Len(str) : ExcludeEnd(str, i) # 0}

\* the words behind the trigger word at token i, as the text has them, in
\* lower case: two words when whitespace and a second word follow the first
WordsBehind(str, i) ==
    JoinTokens(LowerQuery(SubSeq(str, SkipWhitespace(str, i + 1), ExcludeEnd(str, i) - 1)))

\* excludes has one entry for each of these positions, from left to right
ListsPhrasesAt(positions) ==
    /\ Len(parsed.value.excludes) = Cardinality(positions)
    /\ \A n \in 1..Len(parsed.value.excludes) :
          parsed.value.excludes[n] = WordsBehind(query, NthOf(positions, n))

\* C19 as stated: excludes holds the words that follow each occurrence of a
\* trigger word that begins a phrase, in order of appearance, and nothing else.
C19_EveryTrigger ==
    parsed.done => ListsPhrasesAt(PhrasePositions(query))

\* the phrases that are recognized: a phrase is, unless it begins inside a
\* recognized phrase that begins before it
Recognized(str, S) ==
    \A i \in PhrasePositions(str) :
        i \in S <=> ~\E j \in S : j < i /\ i < ExcludeEnd(str, j)

\* C19: excludes holds, in order of appearance, the lower-cased one or two
\* words that follow the trigger word of each recognized phrase, and nothing
\* else; a trigger word among the words of a recognized phrase begins no
\* phrase of its own.
C19_RecognizedPhrases ==
    parsed.done =>
        \E S \in SUBSET PhrasePositions(query) :
            Recognized(query, S) /\ ListsPhrasesAt(S)

\* "Not without Lime" has been parsed: one entry, the two words behind "Not"
C19_Witness ==
    /\ parsed.done
    /\ query = NotWithoutLime
    /\ Cardinality(PhrasePositions(query)) = 2
    /\ parsed.value.excludes = <<"without lime">>

\* no name of the ingredient vocabulary among the words taken by the
\* recognized phrases S is in the ingredients of the result
NotAlsoIngredient(str, S) ==
    \A j \in S : \A i \in IngredientPositions(str) :
        (SkipWhitespace(str, j + 1) <= i /\ i < ExcludeEnd(str, j)) =>
            NameAt(str, i) \notin Members(parsed.value.ingredients)

\* the terms of a field of the result of enhanceSearchArgs
Terms(obj, f) == Members(Get(obj, f).arr)

\* no term is required and excluded at once
Disjoint(obj) == Terms(obj, "must_include") \cap Terms(obj, "must_exclude") = {}

\* C26: an ingredient name inside a recognized exclusion phrase is not in
\* ingredients as well, and enhanceSearchArgs on empty args and the result
\* of parse yields no term that is in must_include and in must_exclude.
C26_NoTermInBoth ==
    (parsed.done /\ ~parsed.threw) =>
        /\ \E S \in SUBSET PhrasePositions(query) :
              Recognized(query, S) /\ NotAlsoIngredient(query, S)
        /\ Disjoint(EnhanceSearchArgs(EmptyObject, parsed.value).enhanced)

====
